---- MODULE Spec2Model ----
(***************************************************************************)
(* AI Video Studio (src/src_App.tsx): the App component as a state machine.*)
(*                                                                         *)
(* State: the component's React state (currentStep, isPlaying,             *)
(* currentSceneIndex), the store's state it reads (currentProject,         *)
(* isGenerating), the asynchronous handlers that are suspended at an await *)
(* or behind a setTimeout (ops), and the playScene chains of the preview   *)
(* (chain).  One action per event handler and per continuation.            *)
(*                                                                         *)
(* Time is carried as data: a narration that runs to its end takes a       *)
(* number of time units drawn from NarrTimes (lastEvent.elapsed when it    *)
(* ends), and the timer a chain arms has the delay the code gives it       *)
(* (delay).                                                                *)
(***************************************************************************)
EXTENDS Integers, Sequences, FiniteSets, TLC

VARIABLES currentStep, project, isGenerating, isPlaying,
          currentSceneIndex, chain, ops, lastEvent

vars == <<currentStep, project, isGenerating, isPlaying,
          currentSceneIndex, chain, ops, lastEvent>>

(* ----------------------------- bounds --------------------------------- *)

\* scenes a project holds at most (Add Scene and the parser stop there)
MaxScenes == 2

\* playScene chains that are pending at the same time
MaxChains == 2

(* ------------------------- program constants --------------------------- *)

\* duration of a scene made by Add Scene
DefaultDuration == 5

\* durations the parser gives a scene
ParsedDurations == {DefaultDuration}

\* values typed into the duration input of a scene (min="2" max="15")
EditValues == {1, 16}

\* time units a narration takes when it runs to its end
NarrTimes == {3, 8}

Steps == <<"script", "style", "scenes", "audio", "render", "preview">>

getStepIndex(step) == CHOOSE i \in 1..Len(Steps) : Steps[i] = step

Max(a, b) == IF a >= b THEN a ELSE b

NoChain == [pc |-> "none"]

\* lastEvent: the handler or continuation that ran last, for the ones a
\* property has to tell apart; of: the chain it ran in, as it left it;
\* elapsed: the time units the narration it ended had taken
Event(name, ch, elapsed) == [name |-> name, of |-> ch, elapsed |-> elapsed]

Other == Event("other", NoChain, 0)

\* createProject(title) of the store: an empty draft
EmptyProject ==
    [script |-> FALSE, style |-> FALSE, scenes |-> <<>>,
     status |-> "draft", videoUrl |-> FALSE]

\* the scene lists parseScriptToScenes can return
ParsedLists ==
    UNION {[1..n -> ParsedDurations] : n \in 0..MaxScenes}

\* a scene as the store holds it (its text is carried along with its
\* duration and is left out); imageUrl: FALSE is null
Scene(d, imageUrl) == [duration |-> d, imageUrl |-> imageUrl]

Durations(scenes) == [i \in 1..Len(scenes) |-> scenes[i].duration]

RemoveAt(s, k) == [i \in 1..(Len(s) - 1) |-> IF i < k THEN s[i] ELSE s[i + 1]]

(* ------------------------------ Init ----------------------------------- *)

Init ==
    /\ currentStep = "script"
    /\ project = EmptyProject
    /\ isGenerating = FALSE
    /\ isPlaying = FALSE
    /\ currentSceneIndex = 0
    /\ chain = <<>>
    /\ ops = <<>>
    /\ lastEvent = Other

(* ------------------- suspended asynchronous handlers ------------------- *)

\* A handler suspended at an await (pc = "await") or behind its 500 ms
\* setTimeout (pc = "timeout").  live: the project its closure captured is
\* still the current project; todo: the parsed scenes handleGenerateScenes
\* has still to make an image for; prior: the status of the project the
\* closure captured (currentProject as it was when the handler was called).
\* parsed: the scenes the parser returned; images: for each parsed scene
\* the loop is done with, whether generateImage resolved; target: the place
\* in the list of the scene handleRegenerateImage was called for (0: it was
\* deleted).
Op(kind, pc, todo) ==
    [kind |-> kind, pc |-> pc, live |-> TRUE, todo |-> todo,
     prior |-> project.status, parsed |-> todo, images |-> <<>>, target |-> 0]

OpIds(kind, pc) == {k \in 1..Len(ops) : ops[k].kind = kind /\ ops[k].pc = pc}

\* updateProject(currentProject.id, ...) of a closure: it writes the project
\* the closure captured, which is the current one unless it was replaced
UpdateProject(op, patched) == IF op.live THEN patched ELSE project

UNCHANGED_preview == UNCHANGED <<isPlaying, currentSceneIndex, chain>>

(* ----------------------------- script step ----------------------------- *)

\* disabled={!topic.trim() || isGenerating}
GenerateScriptDisabled(topic) == ~topic \/ isGenerating

\* topic: the topic input holds text (the user types it before the click)
handleGenerateScript ==
    /\ currentStep = "script"
    /\ \E topic \in BOOLEAN : ~GenerateScriptDisabled(topic) /\ topic
    /\ isGenerating' = TRUE
    /\ ops' = Append(ops, Op("script", "await", <<>>))
    /\ lastEvent' = Other
    /\ UNCHANGED <<currentStep, project>>
    /\ UNCHANGED_preview

\* generateScript resolved: the script is stored, the timeout is armed
ScriptResolved(k) ==
    /\ k \in OpIds("script", "await")
    /\ project' = UpdateProject(ops[k], [project EXCEPT !.script = TRUE])
    /\ ops' = [ops EXCEPT ![k].pc = "timeout"]
    /\ lastEvent' = Other
    /\ UNCHANGED <<currentStep, isGenerating>>
    /\ UNCHANGED_preview

\* setTimeout(() => { setCurrentStep('style'); setGenerating(false) }, 500)
ScriptTimeout(k) ==
    /\ k \in OpIds("script", "timeout")
    /\ currentStep' = "style"
    /\ isGenerating' = FALSE
    /\ ops' = RemoveAt(ops, k)
    /\ lastEvent' = Other
    /\ UNCHANGED project
    /\ UNCHANGED_preview

\* generateScript rejected: catch { setGenerating(false) }
ScriptRejected(k) ==
    /\ k \in OpIds("script", "await")
    /\ isGenerating' = FALSE
    /\ ops' = RemoveAt(ops, k)
    /\ lastEvent' = Other
    /\ UNCHANGED <<currentStep, project>>
    /\ UNCHANGED_preview

\* the script textarea, shown while the script is non-empty: emptying it
ClearScript ==
    /\ currentStep = "script"
    /\ project.script
    /\ project' = [project EXCEPT !.script = FALSE]
    /\ lastEvent' = Other
    /\ UNCHANGED <<currentStep, isGenerating, ops>>
    /\ UNCHANGED_preview

\* the Continue button of the script step, shown while there is a script
ScriptContinue ==
    /\ currentStep = "script"
    /\ project.script
    /\ currentStep' = "style"
    /\ lastEvent' = Other
    /\ UNCHANGED <<project, isGenerating, ops>>
    /\ UNCHANGED_preview

(* ------------------------------ style step ----------------------------- *)

handleStyleSelect ==
    /\ currentStep = "style"
    /\ ~project.style
    /\ project' = [project EXCEPT !.style = TRUE]
    /\ lastEvent' = Other
    /\ UNCHANGED <<currentStep, isGenerating, ops>>
    /\ UNCHANGED_preview

\* disabled={!currentProject?.style || isGenerating}
GenerateScenesDisabled == ~project.style \/ isGenerating

\* The scenes are cleared and the loop runs to its first await; a script
\* that parses to no scene goes straight to the timeout.
handleGenerateScenes ==
    /\ currentStep = "style"
    /\ ~GenerateScenesDisabled
    /\ project.script
    /\ isGenerating' = TRUE
    /\ project' = [project EXCEPT !.scenes = <<>>]
    /\ \E parsed \in ParsedLists :
          ops' = Append(ops, Op("scenes",
                                IF parsed = <<>> THEN "timeout" ELSE "await",
                                parsed))
    /\ lastEvent' = Other
    /\ UNCHANGED currentStep
    /\ UNCHANGED_preview

\* one turn of the loop of handleGenerateScenes ends: the scene made of
\* the first parsed scene of todo is added (addScene appends) and the loop
\* goes on
ImageTurn(k, resolved, scenes) ==
    /\ k \in OpIds("scenes", "await")
    /\ LET op == ops[k]
           rest == Tail(op.todo)
       IN /\ project' = UpdateProject(op, [project EXCEPT !.scenes = scenes])
          /\ ops' = [ops EXCEPT ![k].todo = rest,
                                ![k].images = Append(@, resolved),
                                ![k].pc = IF rest = <<>> THEN "timeout" ELSE "await"]
    /\ lastEvent' = Other
    /\ UNCHANGED <<currentStep, isGenerating>>
    /\ UNCHANGED_preview

\* generateImage resolved: the scene is added with its image
ImageResolved(k) ==
    /\ k \in OpIds("scenes", "await")
    /\ ImageTurn(k, TRUE,
                 Append(project.scenes, Scene(Head(ops[k].todo), TRUE)))

\* ImageRejected without the addScene of the catch
ImageRejectedDropsScene(k) ==
    /\ k \in OpIds("scenes", "await")
    /\ ImageTurn(k, FALSE, project.scenes)

\* generateImage rejected: catch { addScene(..., imageUrl: null) }
ImageRejected(k) ==
    /\ k \in OpIds("scenes", "await")
    /\ ImageTurn(k, FALSE,
                 Append(project.scenes, Scene(Head(ops[k].todo), FALSE)))

\* generateImage settled for the first scene of todo
ImageSettled(k) == ImageResolved(k) \/ ImageRejected(k)

\* setTimeout(() => { setCurrentStep('scenes'); setGenerating(false) }, 500)
ScenesTimeout(k) ==
    /\ k \in OpIds("scenes", "timeout")
    /\ currentStep' = "scenes"
    /\ isGenerating' = FALSE
    /\ ops' = RemoveAt(ops, k)
    /\ lastEvent' = Other
    /\ UNCHANGED project
    /\ UNCHANGED_preview

(* ------------------------- scenes and audio steps ---------------------- *)

AddScene ==
    /\ currentStep = "scenes"
    /\ Len(project.scenes) < MaxScenes
    /\ project' = [project EXCEPT
           !.scenes = Append(@, Scene(DefaultDuration, FALSE))]
    /\ lastEvent' = Other
    /\ UNCHANGED <<currentStep, isGenerating, ops>>
    /\ UNCHANGED_preview

\* the place of the scene at place t once the scene at place i is deleted
\* (a closure holds the id of its scene, not its place)
PlaceAfterDelete(t, i) == IF t = i THEN 0 ELSE IF t > i THEN t - 1 ELSE t

\* scenes.filter((s) => s.id !== scene.id)
DeleteScene(i) ==
    /\ currentStep = "scenes"
    /\ i \in 1..Len(project.scenes)
    /\ project' = [project EXCEPT !.scenes = RemoveAt(@, i)]
    /\ ops' = [k \in 1..Len(ops) |->
                 [ops[k] EXCEPT !.target = PlaceAfterDelete(@, i)]]
    /\ lastEvent' = Other
    /\ UNCHANGED <<currentStep, isGenerating>>
    /\ UNCHANGED_preview

\* the duration input of a scene: onChange stores Number(e.target.value)
EditDuration(i, v) ==
    /\ currentStep = "scenes"
    /\ i \in 1..Len(project.scenes)
    /\ project' = [project EXCEPT !.scenes[i].duration = v]
    /\ lastEvent' = Other
    /\ UNCHANGED <<currentStep, isGenerating, ops>>
    /\ UNCHANGED_preview

\* the Regenerate button is never disabled
RegenerateNeverDisabled == FALSE

\* disabled={isGenerating}
RegenerateDisabled == isGenerating

handleRegenerateImage(i) ==
    /\ currentStep = "scenes"
    /\ i \in 1..Len(project.scenes)
    /\ ~RegenerateDisabled
    /\ isGenerating' = TRUE
    /\ ops' = Append(ops, [Op("regen", "await", <<>>) EXCEPT !.target = i])
    /\ lastEvent' = Other
    /\ UNCHANGED <<currentStep, project>>
    /\ UNCHANGED_preview

\* updateScene(projectId, sceneId, { imageUrl }): the scene with that id,
\* if the project still has it
UpdateSceneImage(scenes, t) ==
    IF t = 0 THEN scenes ELSE [scenes EXCEPT ![t].imageUrl = TRUE]

\* generateImage resolved: updateScene; setGenerating(false)
RegenResolved(k) ==
    /\ k \in OpIds("regen", "await")
    /\ project' = UpdateProject(ops[k],
           [project EXCEPT !.scenes = UpdateSceneImage(@, ops[k].target)])
    /\ isGenerating' = FALSE
    /\ ops' = RemoveAt(ops, k)
    /\ lastEvent' = Other
    /\ UNCHANGED currentStep
    /\ UNCHANGED_preview

\* generateImage rejected: the catch logs; setGenerating(false)
RegenRejected(k) ==
    /\ k \in OpIds("regen", "await")
    /\ isGenerating' = FALSE
    /\ ops' = RemoveAt(ops, k)
    /\ lastEvent' = Other
    /\ UNCHANGED <<currentStep, project>>
    /\ UNCHANGED_preview

ScenesContinue ==
    /\ currentStep = "scenes"
    /\ currentStep' = "audio"
    /\ lastEvent' = Other
    /\ UNCHANGED <<project, isGenerating, ops>>
    /\ UNCHANGED_preview

AudioContinue ==
    /\ currentStep = "audio"
    /\ currentStep' = "render"
    /\ lastEvent' = Other
    /\ UNCHANGED <<project, isGenerating, ops>>
    /\ UNCHANGED_preview

\* StepBarClick without the comparison of the step indices
StepBarClickAnyStep(step) ==
    /\ step # currentStep
    /\ currentStep' = step
    /\ lastEvent' = Other
    /\ UNCHANGED <<project, isGenerating, ops>>
    /\ UNCHANGED_preview

\* the step bar: a step at or before the current one
StepBarClick(step) ==
    /\ getStepIndex(step) <= getStepIndex(currentStep)
    /\ step # currentStep
    /\ currentStep' = step
    /\ lastEvent' = Other
    /\ UNCHANGED <<project, isGenerating, ops>>
    /\ UNCHANGED_preview

(* ------------------------------ render step --------------------------- *)

\* RenderVideoDisabled without isGenerating
RenderVideoDisabledWhenEmpty == Len(project.scenes) = 0

\* disabled={isGenerating || !currentProject?.scenes.length}
RenderVideoDisabled == isGenerating \/ Len(project.scenes) = 0

handleRenderVideo ==
    /\ currentStep = "render"
    /\ ~RenderVideoDisabled
    /\ Len(project.scenes) # 0
    /\ isGenerating' = TRUE
    /\ project' = [project EXCEPT !.status = "rendering"]
    /\ ops' = Append(ops, Op("render", "await", <<>>))
    /\ lastEvent' = Other
    /\ UNCHANGED currentStep
    /\ UNCHANGED_preview

\* RenderResolved without the videoUrl of the update
RenderResolvedNoUrl(k) ==
    /\ k \in OpIds("render", "await")
    /\ project' = UpdateProject(ops[k], [project EXCEPT !.status = "complete"])
    /\ ops' = [ops EXCEPT ![k].pc = "timeout"]
    /\ lastEvent' = Other
    /\ UNCHANGED <<currentStep, isGenerating>>
    /\ UNCHANGED_preview

\* renderVideo resolved: updateProject(id, { videoUrl, status: 'complete' })
RenderResolved(k) ==
    /\ k \in OpIds("render", "await")
    /\ project' = UpdateProject(ops[k],
           [project EXCEPT !.videoUrl = TRUE, !.status = "complete"])
    /\ ops' = [ops EXCEPT ![k].pc = "timeout"]
    /\ lastEvent' = Other
    /\ UNCHANGED <<currentStep, isGenerating>>
    /\ UNCHANGED_preview

\* RenderTimeout without setGenerating(false)
RenderTimeoutKeepsGenerating(k) ==
    /\ k \in OpIds("render", "timeout")
    /\ currentStep' = "preview"
    /\ ops' = RemoveAt(ops, k)
    /\ lastEvent' = Other
    /\ UNCHANGED <<project, isGenerating>>
    /\ UNCHANGED_preview

\* setTimeout(() => { setCurrentStep('preview'); setGenerating(false) }, 500)
RenderTimeout(k) ==
    /\ k \in OpIds("render", "timeout")
    /\ currentStep' = "preview"
    /\ isGenerating' = FALSE
    /\ ops' = RemoveAt(ops, k)
    /\ lastEvent' = Other
    /\ UNCHANGED project
    /\ UNCHANGED_preview

\* RenderRejected without the status update of the catch
RenderRejectedNoStatus(k) ==
    /\ k \in OpIds("render", "await")
    /\ isGenerating' = FALSE
    /\ ops' = RemoveAt(ops, k)
    /\ lastEvent' = Other
    /\ UNCHANGED <<currentStep, project>>
    /\ UNCHANGED_preview

\* renderVideo rejected: catch { status: 'ready'; setGenerating(false) }
RenderRejected(k) ==
    /\ k \in OpIds("render", "await")
    /\ project' = UpdateProject(ops[k], [project EXCEPT !.status = "ready"])
    /\ isGenerating' = FALSE
    /\ ops' = RemoveAt(ops, k)
    /\ lastEvent' = Other
    /\ UNCHANGED currentStep
    /\ UNCHANGED_preview

\* Create New Video: createProject, setTopic(''), setCurrentStep('script')
\* (the topic input is empty again until the user types);
\* the closures of suspended handlers keep the id of the project replaced
CreateNewVideo ==
    /\ currentStep = "preview"
    /\ project' = EmptyProject
    /\ currentStep' = "script"
    /\ ops' = [k \in 1..Len(ops) |-> [ops[k] EXCEPT !.live = FALSE]]
    /\ lastEvent' = Other
    /\ UNCHANGED isGenerating
    /\ UNCHANGED_preview

(* -------------------------- preview: playScene ------------------------- *)

\* chain: the playScene chains that are pending, oldest first.  A chain is
\* suspended at await speakText (pc = "speaking"; the synthesizer may never
\* signal completion, and then SpeakResolved never happens) or behind its
\* setTimeout (pc = "timer").  idx: the index it made current; scenes: the durations of
\* currentProject.scenes as its closure captured them; seen: the indices it
\* made current so far; delay: the delay of the timer it armed; cancelled:
\* a cancel was issued while it was pending.
ChainIds == 1..Len(chain)

NewChain(snapshot) ==
    [pc |-> "new", idx |-> 0, scenes |-> snapshot, seen |-> <<>>,
     delay |-> 0, cancelled |-> FALSE]

\* the continuation of playScene after await speakText: the timer is armed
\* with the scene's duration, whatever the narration took
ArmTimer(ch) ==
    [ch EXCEPT !.pc = "timer", !.delay = ch.scenes[ch.idx + 1]]

\* speechSynthesis.cancel(): the utterance in progress ends and its pending
\* completion resolves
Silence(ch) ==
    IF ch.pc = "speaking" THEN ArmTimer(ch) ELSE ch

\* PlaySceneDone without setCurrentSceneIndex(0)
PlaySceneDoneNoReset(c) ==
    /\ isPlaying' = FALSE
    /\ UNCHANGED currentSceneIndex
    /\ chain' = RemoveAt(chain, c)
    /\ lastEvent' = Event("done", chain[c], 0)

\* index >= scenes.length: setIsPlaying(false); setCurrentSceneIndex(0)
PlaySceneDone(c) ==
    /\ isPlaying' = FALSE
    /\ currentSceneIndex' = 0
    /\ chain' = RemoveAt(chain, c)
    /\ lastEvent' = Event("done", chain[c], 0)

\* setCurrentSceneIndex(index); await speakText(scene.text, voiceType) by
\* chain c of chs: a new utterance first silences the one in progress
PlaySceneVisit(chs, c, index) ==
    /\ currentSceneIndex' = index
    /\ chain' = [d \in 1..Len(chs) |->
                    IF d = c
                    THEN [chs[d] EXCEPT !.pc = "speaking", !.idx = index,
                                        !.seen = Append(@, index),
                                        !.delay = 0]
                    ELSE Silence(chs[d])]
    /\ lastEvent' = Other

playScene(c, index) ==
    IF index >= Len(chain[c].scenes)
    THEN PlaySceneDone(c)
    ELSE PlaySceneVisit(chain, c, index) /\ UNCHANGED isPlaying

\* handlePlayPreview while isPlaying: the timers of the chains are not
\* cleared (previewIntervalRef is never assigned)
PreviewCancel ==
    /\ currentStep = "render"
    /\ Len(project.scenes) # 0
    /\ isPlaying
    /\ isPlaying' = FALSE
    /\ chain' = [d \in ChainIds |-> [Silence(chain[d]) EXCEPT !.cancelled = TRUE]]
    /\ lastEvent' = Other
    /\ UNCHANGED <<currentStep, project, isGenerating, ops,
                   currentSceneIndex>>

\* handlePlayPreview while not isPlaying: setIsPlaying(true),
\* setCurrentSceneIndex(0), playScene(0) up to its first await (the scene
\* list is not empty, so playScene(0) takes the branch that visits)
PreviewStart ==
    /\ currentStep = "render"
    /\ Len(project.scenes) # 0
    /\ ~isPlaying
    /\ Len(chain) < MaxChains
    /\ isPlaying' = TRUE
    /\ PlaySceneVisit(Append(chain, NewChain(Durations(project.scenes))),
                      Len(chain) + 1, 0)
    /\ UNCHANGED <<currentStep, project, isGenerating, ops>>

handlePlayPreview == PreviewCancel \/ PreviewStart

\* the utterance of chain c ran to its end: speakText resolves
SpeakResolved(c) ==
    /\ chain[c].pc = "speaking"
    /\ chain' = [chain EXCEPT ![c] = ArmTimer(@)]
    /\ \E n \in NarrTimes : lastEvent' = Event("resolved", chain'[c], n)
    /\ UNCHANGED <<currentStep, project, isGenerating, ops,
                   isPlaying, currentSceneIndex>>

\* speakText rejects: the await throws out of playScene, nothing catches it
SpeakRejected(c) ==
    /\ chain[c].pc = "speaking"
    /\ chain' = RemoveAt(chain, c)
    /\ lastEvent' = Event("rejected", chain[c], 0)
    /\ UNCHANGED <<currentStep, project, isGenerating, ops,
                   isPlaying, currentSceneIndex>>

\* setTimeout(() => { playScene(index + 1) }, scene.duration * 1000)
TimerFired(c) ==
    /\ chain[c].pc = "timer"
    /\ playScene(c, chain[c].idx + 1)
    /\ UNCHANGED <<currentStep, project, isGenerating, ops>>

(* ------------------------------- Next ---------------------------------- *)

\* the handlers of the steps script ... render and their continuations,
\* but for the duration input and the preview
StudioNext ==
    \/ handleGenerateScript
    \/ \E k \in 1..Len(ops) : ScriptResolved(k)
    \/ \E k \in 1..Len(ops) : ScriptTimeout(k)
    \/ \E k \in 1..Len(ops) : ScriptRejected(k)
    \/ ClearScript
    \/ ScriptContinue
    \/ handleStyleSelect
    \/ handleGenerateScenes
    \/ \E k \in 1..Len(ops) : ImageSettled(k)
    \/ \E k \in 1..Len(ops) : ScenesTimeout(k)
    \/ AddScene
    \/ \E i \in 1..MaxScenes : DeleteScene(i)
    \/ \E i \in 1..MaxScenes : handleRegenerateImage(i)
    \/ \E k \in 1..Len(ops) : RegenResolved(k)
    \/ \E k \in 1..Len(ops) : RegenRejected(k)
    \/ ScenesContinue
    \/ AudioContinue
    \/ \E i \in 1..Len(Steps) : StepBarClick(Steps[i])
    \/ handleRenderVideo
    \/ \E k \in 1..Len(ops) : RenderResolved(k)
    \/ \E k \in 1..Len(ops) : RenderTimeout(k)
    \/ \E k \in 1..Len(ops) : RenderRejected(k)
    \/ CreateNewVideo

\* the preview: the button and the continuations of playScene
PreviewNext ==
    \/ handlePlayPreview
    \/ \E c \in 1..Len(chain) : SpeakResolved(c)
    \/ \E c \in 1..Len(chain) : SpeakRejected(c)
    \/ \E c \in 1..Len(chain) : TimerFired(c)

\* The component with its preview.  The scenes keep the duration they were
\* made with: a duration is read by the timer of playScene only.
Next == StudioNext \/ PreviewNext

Spec == Init /\ [][Next]_vars

\* The component with the duration input of the scene editor and without
\* the preview.  The steps of PreviewNext leave currentStep, project,
\* isGenerating and ops as they are, so what holds here of these four holds
\* of them with the preview running as well.
EditorNext ==
    \/ StudioNext
    \/ \E i \in 1..MaxScenes : \E v \in EditValues : EditDuration(i, v)

EditorSpec == Init /\ [][EditorNext]_vars

\* renderVideo settles in the end, and the 500 ms timeout that follows a
\* resolution fires
FairEditorSpec ==
    /\ EditorSpec
    /\ WF_vars(\E k \in 1..Len(ops) : RenderResolved(k) \/ RenderRejected(k))
    /\ WF_vars(\E k \in 1..Len(ops) : RenderTimeout(k))

(* ------------------------------ properties ----------------------------- *)

\* C1: cancelling a preview stops the traversal: the cancel leaves
\* currentSceneIndex at 0 and isPlaying false, and a chain that was cancelled
\* never makes another scene current nor calls speakText again (it is never
\* again suspended at await speakText).
C1_CancelStopsTraversal ==
    [][/\ PreviewCancel => (currentSceneIndex' = 0 /\ ~isPlaying')
       /\ \A c \in 1..Len(chain') :
             chain'[c].cancelled => chain'[c].pc # "speaking"]_vars

\* C2: at most one preview traversal is active at any instant: never more
\* than one playScene chain with a pending speakText call or a pending timer.
C2_SingleTraversal == Len(chain) <= 1

\* C3: a scene stays current for exactly max(duration, narrationElapsed):
\* when the narration of a scene has ended after lastEvent.elapsed time units
\* and the chain has armed its timer, the dwell of the scene, the narration
\* time plus the timer's delay, is the larger of the scene's duration and the
\* narration time.
C3_DwellIsMax ==
    lastEvent.name = "resolved" =>
        LET ch == lastEvent.of
        IN lastEvent.elapsed + ch.delay
               = Max(ch.scenes[ch.idx + 1], lastEvent.elapsed)

\* C4: in an uncancelled traversal a scene is not replaced as the current
\* scene before its narration has completed: while a chain that was not
\* cancelled waits for the narration of the current scene, no step makes
\* another scene current.
C4_NoCutOff ==
    [][\A c \in ChainIds :
          (/\ ~chain[c].cancelled
           /\ chain[c].pc = "speaking"
           /\ currentSceneIndex = chain[c].idx)
          => currentSceneIndex' = currentSceneIndex]_vars

\* C5: if speakText rejects for a scene the traversal does not stall: the
\* chain is still pending, with the timer of that scene armed.
C5_RejectionStillDwells ==
    lastEvent.name = "rejected" =>
        \E c \in ChainIds : chain[c] = ArmTimer(lastEvent.of)

\* C6: if speakText never signals completion the traversal still advances
\* once the duration has elapsed: a chain that waits for speakText has a step
\* of its timer enabled, whether or not the completion ever comes.
C6_AdvancesWithoutCompletion ==
    \A c \in ChainIds : chain[c].pc = "speaking" => ENABLED TimerFired(c)

\* C7: within one playing period the scenes that become current follow list
\* order with none skipped or repeated: a step of a playing period in which a
\* chain makes a scene current raises currentSceneIndex by exactly one.
C7_ListOrder ==
    [][(isPlaying /\ isPlaying' /\ \E c \in ChainIds : TimerFired(c))
          => currentSceneIndex' = currentSceneIndex + 1]_vars

\* C8: an uncancelled traversal over n scenes whose speakText calls all
\* completed has made each of the n scenes current exactly once, in order,
\* when it ends, and it ends in Idle: isPlaying false, currentSceneIndex 0.
C8_VisitsEachOnceThenIdle ==
    (lastEvent.name = "done" /\ ~lastEvent.of.cancelled) =>
        /\ lastEvent.of.seen = [i \in 1..Len(lastEvent.of.scenes) |-> i - 1]
        /\ ~isPlaying
        /\ currentSceneIndex = 0

\* an uncancelled traversal over two scenes or more has just ended
C8_Witness ==
    /\ lastEvent.name = "done"
    /\ ~lastEvent.of.cancelled
    /\ Len(lastEvent.of.scenes) >= 2

\* C9: a cancel request issued while the sequencer is Idle changes nothing:
\* handlePlayPreview with isPlaying false leaves isPlaying, currentSceneIndex
\* and the chains as they are.
C9_CancelIdempotent ==
    [][(handlePlayPreview /\ ~isPlaying)
          => UNCHANGED <<isPlaying, currentSceneIndex, chain>>]_vars

RenderCalls == OpIds("render", "await")

\* C10: while a render is in flight a second request is rejected before
\* doing any work and the first proceeds unaffected: the Render Video button
\* is disabled, one renderVideo call is pending and no more, status is still
\* 'rendering', and the call's closure still holds the current project.
C10_SecondRenderRejected ==
    RenderCalls # {} =>
        /\ RenderVideoDisabled
        /\ Cardinality(RenderCalls) = 1
        /\ project.status = "rendering"
        /\ \A k \in RenderCalls : ops[k].live

\* a render is in flight and the user is at the Render Video button
C10_Witness ==
    /\ Cardinality(RenderCalls) = 1
    /\ currentStep = "render"
    /\ Len(project.scenes) # 0


\* C11: when renderVideo fails, the status of the project becomes 'ready'
\* (it does not stay 'rendering') and videoUrl is what it was before the
\* attempt.
C11_FailureRevertsToReady ==
    [][\A k \in 1..Len(ops) :
          RenderRejected(k) =>
              /\ project'.status = "ready"
              /\ project'.videoUrl = project.videoUrl]_vars

\* a render failed while the artifact of an earlier render was there
C11_Witness ==
    project.status = "ready" /\ project.videoUrl /\ ~isGenerating

\* C12: a render attempt that fails (renderVideo rejects with an empty
\* sequence) leaves the status of the project at the value it had before
\* the call.
C12_FailureKeepsPriorStatus ==
    [][\A k \in 1..Len(ops) :
          RenderRejected(k) => project'.status = ops[k].prior]_vars

\* the edges the status may take: draft|ready -> rendering -> complete,
\* rendering -> ready
StatusEdges ==
    {<<"draft", "rendering">>, <<"ready", "rendering">>,
     <<"rendering", "complete">>, <<"rendering", "ready">>}

RenderHandlerStep ==
    \/ handleRenderVideo
    \/ \E k \in 1..Len(ops) : RenderResolved(k) \/ RenderRejected(k)

\* C13: the status of a project changes only along draft|ready ->
\* rendering -> complete, or rendering -> ready, and only in a step of the
\* render handler (Create New Video replaces the project, it does not write
\* the status of one).
C13_StatusTransitions ==
    [][(project'.status # project.status /\ ~CreateNewVideo) =>
          /\ <<project.status, project'.status>> \in StatusEdges
          /\ RenderHandlerStep]_vars

\* C14: videoUrl is written only by the update that sets the status to
\* 'complete', so a complete project has a videoUrl, and no other step
\* (a failed render, a render in flight) changes videoUrl.
C14_ArtifactAllOrNothing ==
    /\ [](project.status = "complete" => project.videoUrl)
    /\ [][(project'.videoUrl # project.videoUrl /\ ~CreateNewVideo) =>
             /\ project'.videoUrl
             /\ project'.status = "complete"
             /\ \E k \in 1..Len(ops) : RenderResolved(k)]_vars

\* a second render is in flight and the artifact of the first is still there
C14_Witness ==
    project.status = "rendering" /\ project.videoUrl /\ RenderCalls # {}

\* C15: while handleGenerateScenes runs and when it finishes, the project
\* holds one scene per parsed scene the loop is done with, in parsed order,
\* each with the parsed duration, and with an image exactly if generateImage
\* resolved for it; when the loop has finished that is one scene per parsed
\* scene, whatever the pattern of failures.
C15_ImageFailureRecovered ==
    \A k \in 1..Len(ops) :
        ops[k].kind = "scenes" =>
            LET op == ops[k]
                n == Len(op.images)
            IN /\ Len(project.scenes) = n
               /\ n + Len(op.todo) = Len(op.parsed)
               /\ op.pc = "timeout" => n = Len(op.parsed)
               /\ \A i \in 1..n :
                     project.scenes[i] = Scene(op.parsed[i], op.images[i])

\* the loop finished with two scenes, the image of the first one failed
C15_Witness ==
    \E k \in OpIds("scenes", "timeout") :
        /\ ops[k].images = <<FALSE, TRUE>>
        /\ Len(project.scenes) = 2

\* C16: after any sequence of scene creations and duration edits in the
\* editor, the duration of every scene lies in [2, 15].
C16_DurationClamped ==
    \A i \in 1..Len(project.scenes) :
        project.scenes[i].duration >= 2 /\ project.scenes[i].duration <= 15

RenderInFlight == \E k \in 1..Len(ops) : ops[k].kind = "render"

\* C17: a render attempt that has started returns control in the end, on
\* success and on failure: isGenerating is false again and the status is
\* not 'rendering'.
C17_RenderReturnsControl ==
    RenderInFlight ~> (~isGenerating /\ project.status # "rendering")

\* a render succeeded and returned control
C17_Witness ==
    /\ currentStep = "preview"
    /\ project.status = "complete"
    /\ ~isGenerating
    /\ ops = <<>>

\* C18: while a render is in flight no preview traversal has a pending
\* speakText call or timer, and while one has, a render cannot be started.
C18_PreviewRenderExclusive ==
    /\ RenderInFlight => chain = <<>>
    /\ chain # <<>> => ~ENABLED handleRenderVideo

\* C19: whenever isPlaying is true, currentSceneIndex is an index of the
\* scene list of the project.
C19_IndexValid ==
    isPlaying =>
        (currentSceneIndex >= 0 /\ currentSceneIndex < Len(project.scenes))

\* C20: script generation, scene generation, image regeneration and
\* render exclude one another: none can be started while isGenerating is
\* true, at most one is in flight, and status 'rendering' implies
\* isGenerating.
C20_GenerationsExclusive ==
    /\ Len(ops) <= 1
    /\ ops # <<>> => isGenerating
    /\ project.status = "rendering" => isGenerating
    /\ isGenerating =>
          /\ ~ENABLED handleGenerateScript
          /\ ~ENABLED handleGenerateScenes
          /\ ~ENABLED handleRenderVideo
          /\ \A i \in 1..MaxScenes : ~ENABLED handleRegenerateImage(i)

\* an image regeneration is in flight
C20_Witness ==
    OpIds("regen", "await") # {} /\ Len(project.scenes) = MaxScenes

\* C21: the preview step is reached through a successful render only: in
\* every state currentStep = 'preview' implies that the project has status
\* 'complete' and a videoUrl; a click in the step bar never moves to a step
\* after the current one; Create New Video leaves the preview step in the
\* step that replaces the project.
C21_PreviewStepNeedsArtifact ==
    /\ [](currentStep = "preview" =>
             (project.status = "complete" /\ project.videoUrl))
    /\ [][/\ \A i \in 1..Len(Steps) :
                (StepBarClick(Steps[i]) =>
                    getStepIndex(currentStep') <= getStepIndex(currentStep))
           /\ (currentStep' = "preview" =>
                 (currentStep = "preview"
                  \/ \E k \in 1..Len(ops) : RenderTimeout(k)))
           /\ ((project' # project /\ currentStep = "preview") =>
                 (project' = EmptyProject /\ currentStep' = "script"))]_vars

\* the preview step, reached by the timeout of a successful render of a
\* full scene list in which a duration was edited
C21_Witness ==
    /\ currentStep = "preview"
    /\ project.videoUrl
    /\ Len(project.scenes) = MaxScenes
    /\ \E i \in 1..Len(project.scenes) : project.scenes[i].duration # DefaultDuration
====
